---- MODULE Spec2Model ----
(***************************************************************************)
(* Model of scripts/generate_synthetic_training.py: the synthetic         *)
(* training-data generator of EdgeNeuro.  Strings are TLA+ strings and    *)
(* are taken apart character by character (SubSeq on a string yields a    *)
(* string), so formatting, lowercasing and JSON encoding are computed,    *)
(* not assumed.                                                           *)
(***************************************************************************)
EXTENDS Integers, Sequences, FiniteSets, Bags, TLC

VARIABLES
    catalog,     \* the Agent Catalog of the run: sequence of [agent, intents], in dict order
    templates,   \* the Template Set of the run: the list TEMPLATES
    samples,     \* SAMPLES_PER_INTENT of the run
    seeded,      \* TRUE when the random source was seeded and is re-seeded before a re-run
    tape,        \* seeded source: the outputs it has produced since the seed
    tpos,        \* seeded source: index of the next output to be consumed
    pc,          \* position of main(): generate, open, write, report, done, failed
    dataset,     \* the list `dataset` of main()
    gi,          \* number of iterations of the generation loops completed
    file,        \* complete lines held by edgeneuro_training_data.jsonl
    tail,        \* what the file holds after its last newline: "" or a cut line
    wi,          \* number of entries handed to f.write so far
    opened,      \* TRUE once open(filename, "w") has returned
    shuffles,    \* number of calls of random.shuffle so far
    reported,    \* the count printed by the final message, "none" before it
    run,         \* 1 for the first run, 2 for the re-run with the same seed
    prev,        \* what the first run left behind, "none" during the first run
    args,        \* generate_sample in isolation: the (agent, intent) arguments
    calls        \* generate_sample in isolation: the calls made, with their results

vars == <<catalog, templates, samples, seeded, tape, tpos, pc, dataset, gi, file, tail, wi,
          opened, shuffles, reported, run, prev, args, calls>>

-----------------------------------------------------------------------------
(* Bounds of the model.                                                    *)

\* largest dataset (pairs of the catalog times samples) a run of Spec builds
\* when it draws from all of TEMPLATES
MaxRecords == 2
\* largest dataset a run of Spec builds when its Template Set has one template
MaxRecordsOneTemplate == 4
\* largest dataset a run of SpecDet builds (each run is made twice)
MaxRecordsDet == 2
\* number of calls of generate_sample made on one (agent, intent) in SpecSample
MaxCalls == 2

-----------------------------------------------------------------------------
(* Strings.                                                                *)

Ch(s, i) == SubSeq(s, i, i)

Rest(s, i) == SubSeq(s, i, Len(s))

StartsWith(s, p) == Len(p) <= Len(s) /\ SubSeq(s, 1, Len(p)) = p

\* the items of a sequence
Range(f) == {f[i] : i \in DOMAIN f}

\* the least member of a non-empty set of integers
Least(P) == CHOOSE i \in P : \A j \in P : i <= j

\* index of the first character of s, at or after i, that is in set cs; 0 if none
FirstOf(s, cs, i) ==
    LET P == {j \in i..Len(s) : Ch(s, j) \in cs}
    IN  IF P = {} THEN 0 ELSE Least(P)

UpperLetters == "ABCDEFGHIJKLMNOPQRSTUVWXYZ"

LowerLetters == "abcdefghijklmnopqrstuvwxyz"

UpperSet == {Ch(UpperLetters, i) : i \in 1..Len(UpperLetters)}

LowerSet == {Ch(LowerLetters, i) : i \in 1..Len(LowerLetters)}

\* str.lower on one ASCII capital
LowerChar(c) ==
    Ch(LowerLetters, CHOOSE i \in 1..Len(UpperLetters) : Ch(UpperLetters, i) = c)

\* str.upper on one ASCII small letter
UpperChar(c) ==
    Ch(UpperLetters, CHOOSE i \in 1..Len(LowerLetters) : Ch(LowerLetters, i) = c)

\* the positions of s that hold a character of set cs, in increasing order
Positions(s, cs) == SelectSeq([i \in 1..Len(s) |-> i], LAMBDA i : Ch(s, i) \in cs)

\* lower(s) from index i on; caps are the positions of the capitals of s, of
\* which the first k - 1 are done
RECURSIVE LowerFrom(_, _, _, _)
LowerFrom(s, caps, k, i) ==
    IF k > Len(caps) THEN Rest(s, i)
    ELSE SubSeq(s, i, caps[k] - 1) \o LowerChar(Ch(s, caps[k]))
             \o LowerFrom(s, caps, k + 1, caps[k] + 1)

\* str.lower: every capital is replaced by its small letter, everything else
\* is copied
lower(s) == LowerFrom(s, Positions(s, UpperSet), 1, 1)

RECURSIVE UpperFrom(_, _, _, _)
UpperFrom(s, smalls, k, i) ==
    IF k > Len(smalls) THEN Rest(s, i)
    ELSE SubSeq(s, i, smalls[k] - 1) \o UpperChar(Ch(s, smalls[k]))
             \o UpperFrom(s, smalls, k + 1, smalls[k] + 1)

\* str.upper
upper(s) == UpperFrom(s, Positions(s, LowerSet), 1, 1)

\* str.format(intent=intent): text is copied up to the next "{", the
\* replacement field {intent} is replaced by the value, and the rest is
\* formatted in turn; the value itself is not parsed.
RECURSIVE format(_, _)
format(t, intent) ==
    LET p == FirstOf(t, {"{"}, 1)
        q == FirstOf(t, {"}"}, p + 1)
    IN  IF p = 0 \/ q = 0 \/ SubSeq(t, p + 1, q - 1) # "intent" THEN t
        ELSE SubSeq(t, 1, p - 1) \o intent \o format(Rest(t, q + 1), intent)

-----------------------------------------------------------------------------
(* json.dumps, for the values the script encodes.                          *)

\* the escapes of json.dumps that ASCII text without control characters needs
EscapeChar(c) ==
    IF c = "\"" THEN "\\\""
    ELSE IF c = "\\" THEN "\\\\"
    ELSE c

\* Escape(s) from index i on; sp are the positions of the quotes and
\* backslashes of s, of which the first k - 1 are done
RECURSIVE EscapeFrom(_, _, _, _)
EscapeFrom(s, sp, k, i) ==
    IF k > Len(sp) THEN Rest(s, i)
    ELSE SubSeq(s, i, sp[k] - 1) \o EscapeChar(Ch(s, sp[k]))
             \o EscapeFrom(s, sp, k + 1, sp[k] + 1)

\* the body of a JSON string literal: quotes and backslashes are escaped,
\* everything else is copied
Escape(s) == EscapeFrom(s, Positions(s, {"\"", "\\"}), 1, 1)

\* json.dumps of a str
DumpsStr(s) == "\"" \o Escape(s) \o "\""

Digits == "0123456789"

DigitSet == {Ch(Digits, k) : k \in 1..Len(Digits)}

\* float.__repr__ of a float given in tenths (10 is 1.0), as json.dumps writes it
DumpsFloat(tenths) ==
    Ch(Digits, (tenths \div 10) + 1) \o "." \o Ch(Digits, (tenths % 10) + 1)

\* json.dumps of the dict {"target": ..., "confidence": ..., "reason": ...}
DumpsOutput(o) ==
    "{" \o DumpsStr("target") \o ": " \o DumpsStr(o.target) \o ", "
        \o DumpsStr("confidence") \o ": " \o DumpsFloat(o.confidence) \o ", "
        \o DumpsStr("reason") \o ": " \o DumpsStr(o.reason) \o "}"

\* json.dumps(entry) of a record {"instruction": ..., "input": ..., "output": ...}
DumpsEntry(e) ==
    "{" \o DumpsStr("instruction") \o ": " \o DumpsStr(e.instruction) \o ", "
        \o DumpsStr("input") \o ": " \o DumpsStr(e.input) \o ", "
        \o DumpsStr("output") \o ": " \o DumpsStr(e.output) \o "}"

-----------------------------------------------------------------------------
(* Reading back what json.dumps wrote (used to state properties of records *)
(* and of file lines): a decoder for one flat JSON object whose values are *)
(* strings or numbers, with the escapes \" and \\.                         *)

\* the number of backslashes that end right before index i
RECURSIVE BackslashesBefore(_, _)
BackslashesBefore(s, i) ==
    IF i > 1 /\ Ch(s, i - 1) = "\\" THEN 1 + BackslashesBefore(s, i - 1) ELSE 0

\* the quotes of s that delimit string literals (the others are escaped)
Delimiters(s) ==
    {i \in 1..Len(s) : Ch(s, i) = "\"" /\ BackslashesBefore(s, i) % 2 = 0}

\* Unescape(raw) from index i on; bs are the positions of the backslashes
\* of raw, of which the first k - 1 are done
RECURSIVE UnescapeFrom(_, _, _, _)
UnescapeFrom(raw, bs, k, i) ==
    IF k > Len(bs) \/ bs[k] = Len(raw) THEN Rest(raw, i)
    ELSE IF bs[k] < i THEN UnescapeFrom(raw, bs, k + 1, i)
    ELSE SubSeq(raw, i, bs[k] - 1) \o Ch(raw, bs[k] + 1)
             \o UnescapeFrom(raw, bs, k + 1, bs[k] + 2)

\* the body of a string literal, decoded: the character after a backslash
\* stands for itself
Unescape(raw) == UnescapeFrom(raw, Positions(raw, {"\\"}), 1, 1)

\* the members of the object from index i on (i is at the quote of a key);
\* dq is Delimiters(s)
RECURSIVE ReadMembers(_, _, _, _)
ReadMembers(s, dq, i, acc) ==
    LET kEnd == IF {q \in dq : q > i} = {} THEN 0 ELSE Least({q \in dq : q > i})
        j == kEnd + 3
        isStr == j <= Len(s) /\ Ch(s, j) = "\""
        vEnd == IF isStr
                THEN IF {q \in dq : q > j} = {} THEN 0 ELSE Least({q \in dq : q > j})
                ELSE FirstOf(s, {",", "}"}, j)
        raw == IF isStr THEN SubSeq(s, j + 1, vEnd - 1) ELSE SubSeq(s, j, vEnd - 1)
        next == IF isStr THEN vEnd + 1 ELSE vEnd
        m == Append(acc, [key |-> Unescape(SubSeq(s, i + 1, kEnd - 1)),
                          val |-> IF isStr THEN Unescape(raw) ELSE raw])
        bad == [ok |-> FALSE, members |-> acc]
    IN  IF ~(i \in dq /\ kEnd > 0 /\ SubSeq(s, kEnd + 1, kEnd + 2) = ": ") THEN bad
        ELSE IF vEnd = 0 THEN bad
        ELSE IF ~isStr /\ (raw = "" \/ \E k \in 1..Len(raw) : Ch(raw, k) \notin DigitSet \cup {".", "-"})
             THEN bad
        ELSE IF Rest(s, next) = "}" THEN [ok |-> TRUE, members |-> m]
        ELSE IF SubSeq(s, next, next + 1) = ", " THEN ReadMembers(s, dq, next + 2, m)
        ELSE bad

\* json.loads of a flat object: [ok, members], members a sequence of [key, val]
\* (a number is given as its token)
Loads(s) ==
    IF StartsWith(s, "{") THEN ReadMembers(s, Delimiters(s), 2, <<>>)
    ELSE [ok |-> FALSE, members |-> <<>>]

\* the keys of a decoded object, in order
Keys(o) == [i \in 1..Len(o.members) |-> o.members[i].key]

Has(o, key) == o.ok /\ \E i \in 1..Len(o.members) : o.members[i].key = key

\* the value of member `key` of a decoded object
Get(o, key) == o.members[CHOOSE i \in 1..Len(o.members) : o.members[i].key = key].val

-----------------------------------------------------------------------------
(* The script's constants.                                                 *)

\* the dict AGENTS, in insertion order (the order AGENTS.items() iterates in)
AGENTS ==
    << [agent |-> "agent_hr",
        intents |-> <<"payroll issue", "holiday request", "benefits question", "onboarding">>],
       [agent |-> "agent_it",
        intents |-> <<"vpn access", "password reset", "laptop repair", "software license">>],
       [agent |-> "agent_sales",
        intents |-> <<"customer lead", "sales report", "crm update", "contract renewal">>],
       [agent |-> "agent_data",
        intents |-> <<"sql query", "dashboard access", "data warehouse", "snowflake">>] >>

TEMPLATES ==
    << "I need help with {intent}",
       "Can you check my {intent}?",
       "Who handles {intent}?",
       "It seems my {intent} is broken",
       "Quick question about {intent}" >>

INSTRUCTION == "Route the user query to the correct internal agent. Output JSON."

SAMPLES_PER_INTENT == 50

\* the threshold 0.1 of the lowercase flip, in hundredths (the unit of a draw)
LOWERCASE_THRESHOLD == 10

\* the confidence 1.0, in tenths
CONFIDENCE == 10

FILENAME == "edgeneuro_training_data.jsonl"

-----------------------------------------------------------------------------
(* The random source.                                                      *)

\* outcomes of random.choice's index draw, _randbelow(len(TEMPLATES))
ChoiceDraws == 0..(Len(templates) - 1)

\* outcomes of random.random(), in hundredths: a float of [0.0, 1.0); the
\* sample is the threshold itself and the last value below it
RandomDraws == {9, 10}

\* outcomes of the draws of random.shuffle on a list of n items: one
\* _randbelow(i + 1) for i = n-1 down to 1, in that order
ShuffleDraws(n) ==
    IF n < 2 THEN {<<>>}
    ELSE {js \in [1..(n - 1) -> 0..(n - 1)] : \A k \in 1..(n - 1) : js[k] <= n - k}

\* Mutant: the draws come from a source the seed does not reach.
ReplayUnseeded(ds) == TRUE

\* The draws ds are what the random source yields next.  An unseeded source
\* (the script never calls random.seed) yields anything; a seeded one yields
\* what it yielded at the same position after the same seed.
Replay(ds) ==
    seeded => \A k \in 1..Len(ds) :
                  tpos + k - 1 <= Len(tape) => tape[tpos + k - 1] = ds[k]

\* the random source after yielding ds
Consume(ds) ==
    IF seeded
    THEN /\ tape' = IF tpos + Len(ds) - 1 > Len(tape)
                    THEN SubSeq(tape, 1, tpos - 1) \o ds
                    ELSE tape
         /\ tpos' = tpos + Len(ds)
    ELSE UNCHANGED <<tape, tpos>>

-----------------------------------------------------------------------------
(* generate_sample.                                                        *)

\* Mutant: the reason is built from the utterance instead of the intent.
generate_sample_reason_from_utterance(agent, intent, k, d) ==
    LET utterance == format(templates[k + 1], intent)
    IN  [ instruction |-> INSTRUCTION,
          input       |-> IF d < LOWERCASE_THRESHOLD THEN lower(utterance) ELSE utterance,
          output      |-> DumpsOutput([ target     |-> agent,
                                        confidence |-> CONFIDENCE,
                                        reason     |-> "Matched intent: " \o utterance ]) ]

\* Mutant: the noise step uppercases instead of lowercasing.
generate_sample_upper(agent, intent, k, d) ==
    LET utterance == format(templates[k + 1], intent)
    IN  [ instruction |-> INSTRUCTION,
          input       |-> IF d < LOWERCASE_THRESHOLD THEN upper(utterance) ELSE utterance,
          output      |-> DumpsOutput([ target     |-> agent,
                                        confidence |-> CONFIDENCE,
                                        reason     |-> "Matched intent: " \o intent ]) ]

\* Mutant: the flip is taken at the threshold too (<= instead of <).
generate_sample_flip_at_threshold(agent, intent, k, d) ==
    LET utterance == format(templates[k + 1], intent)
    IN  [ instruction |-> INSTRUCTION,
          input       |-> IF d <= LOWERCASE_THRESHOLD THEN lower(utterance) ELSE utterance,
          output      |-> DumpsOutput([ target     |-> agent,
                                        confidence |-> CONFIDENCE,
                                        reason     |-> "Matched intent: " \o intent ]) ]

\* Mutant: the flip lowercases the intent before the record is built, so
\* the reason is lowercased with the input.
generate_sample_lowers_intent(agent, intent, k, d) ==
    LET flipped == d < LOWERCASE_THRESHOLD
        named == IF flipped THEN lower(intent) ELSE intent
        utterance == format(templates[k + 1], intent)
    IN  [ instruction |-> INSTRUCTION,
          input       |-> IF flipped THEN lower(utterance) ELSE utterance,
          output      |-> DumpsOutput([ target     |-> agent,
                                        confidence |-> CONFIDENCE,
                                        reason     |-> "Matched intent: " \o named ]) ]

\* generate_sample(agent, intent) where random.choice drew index k and
\* random.random() returned d hundredths
generate_sample(agent, intent, k, d) ==
    LET utterance == format(templates[k + 1], intent)
    IN  [ instruction |-> INSTRUCTION,
          input       |-> IF d < LOWERCASE_THRESHOLD THEN lower(utterance) ELSE utterance,
          output      |-> DumpsOutput([ target     |-> agent,
                                        confidence |-> CONFIDENCE,
                                        reason     |-> "Matched intent: " \o intent ]) ]

-----------------------------------------------------------------------------
(* main.                                                                   *)

\* x repeated n times
Repeat(x, n) == [i \in 1..n |-> x]

RECURSIVE IntentLoop(_, _, _)
\* for intent in intents: for _ in range(n): the (agent, intent) of each iteration
IntentLoop(agent, intents, n) ==
    IF intents = <<>> THEN <<>>
    ELSE Repeat([agent |-> agent, intent |-> Head(intents)], n)
             \o IntentLoop(agent, Tail(intents), n)

RECURSIVE IterationsOneShort(_, _)
\* Mutant: the innermost loop runs range(SAMPLES_PER_INTENT - 1).
IterationsOneShort(cat, n) ==
    IF cat = <<>> THEN <<>>
    ELSE IntentLoop(Head(cat).agent, Head(cat).intents, IF n > 1 THEN n - 1 ELSE 0)
             \o IterationsOneShort(Tail(cat), n)

RECURSIVE OnePass(_)
OnePass(cat) ==
    IF cat = <<>> THEN <<>>
    ELSE IntentLoop(Head(cat).agent, Head(cat).intents, 1) \o OnePass(Tail(cat))

RECURSIVE IterationsRepetitionsOutermost(_, _)
\* Mutant: the repetition loop is the outermost of the three.
IterationsRepetitionsOutermost(cat, n) ==
    IF n <= 0 THEN <<>>
    ELSE OnePass(cat) \o IterationsRepetitionsOutermost(cat, n - 1)

RECURSIVE Iterations(_, _)
\* the three nested loops of main: the (agent, intent) of each call of
\* generate_sample, in the order the calls are made
Iterations(cat, n) ==
    IF cat = <<>> THEN <<>>
    ELSE IntentLoop(Head(cat).agent, Head(cat).intents, IF n > 0 THEN n ELSE 0)
             \o Iterations(Tail(cat), n)

Swap(x, a, b) == [x EXCEPT ![a] = x[b], ![b] = x[a]]

RECURSIVE ShuffleFrom(_, _, _)
\* the loop of random.shuffle from its k-th draw on: i = Len(x) - k (0-based)
ShuffleFrom(x, js, k) ==
    IF k > Len(js) THEN x
    ELSE ShuffleFrom(Swap(x, Len(x) - k + 1, js[k] + 1), js, k + 1)

RECURSIVE OverwriteFrom(_, _, _)
OverwriteFrom(x, js, k) ==
    IF k > Len(js) THEN x
    ELSE OverwriteFrom([x EXCEPT ![Len(x) - k + 1] = x[js[k] + 1]], js, k + 1)

\* Mutant: x[i] = x[j] instead of the swap.
shuffle_overwrites(x, js) == OverwriteFrom(x, js, 1)

\* random.shuffle(x) with draws js: for i in reversed(range(1, len(x))):
\* j = randbelow(i + 1); x[i], x[j] = x[j], x[i]
shuffle(x, js) == ShuffleFrom(x, js, 1)

\* Mutant: the file is opened with mode "a".
TruncateAppendMode(f) == f

\* what open(filename, "w") leaves in the file
Truncate(f) == <<>>

\* the file after f.write(json.dumps(entry) + "\n")
WriteEntry(f, entry) == Append(f, DumpsEntry(entry))

\* dataset.append(generate_sample(agent, intent)): one iteration of the loops
Generate ==
    /\ pc = "generate"
    /\ gi < Len(Iterations(catalog, samples))
    /\ \E k \in ChoiceDraws, d \in RandomDraws :
          LET it == Iterations(catalog, samples)[gi + 1]
          IN  /\ Replay(<<k, d>>)
              /\ Consume(<<k, d>>)
              /\ dataset' = Append(dataset, generate_sample(it.agent, it.intent, k, d))
    /\ gi' = gi + 1
    /\ UNCHANGED <<catalog, templates, samples, seeded, pc, file, tail, wi, opened, shuffles,
                   reported, run, prev, args, calls>>

\* the loops are over: random.shuffle(dataset)
Shuffle ==
    /\ pc = "generate"
    /\ gi = Len(Iterations(catalog, samples))
    /\ \E js \in ShuffleDraws(Len(dataset)) :
          /\ Replay(js)
          /\ Consume(js)
          /\ dataset' = shuffle(dataset, js)
    /\ shuffles' = shuffles + 1
    /\ pc' = "open"
    /\ UNCHANGED <<catalog, templates, samples, seeded, gi, file, tail, wi, opened, reported,
                   run, prev, args, calls>>

\* Mutant: the with block is entered before the generation loops.
OpenFileBeforeGeneration ==
    /\ pc = "generate"
    /\ gi = 0
    /\ ~opened
    /\ file' = Truncate(file)
    /\ tail' = ""
    /\ opened' = TRUE
    /\ UNCHANGED <<catalog, templates, samples, seeded, tape, tpos, pc, dataset, gi, wi,
                   shuffles, reported, run, prev, args, calls>>

\* open(filename, "w") succeeds: the file is created or truncated
OpenFile ==
    /\ pc = "open"
    /\ file' = Truncate(file)
    /\ tail' = ""
    /\ opened' = TRUE
    /\ wi' = 0
    /\ pc' = "write"
    /\ UNCHANGED <<catalog, templates, samples, seeded, tape, tpos, dataset, gi, shuffles,
                   reported, run, prev, args, calls>>

\* open(filename, "w") raises OSError (path not writable): nothing catches it
OpenFail ==
    /\ pc = "open"
    /\ pc' = "failed"
    /\ UNCHANGED <<catalog, templates, samples, seeded, tape, tpos, dataset, gi, file, tail, wi,
                   opened, shuffles, reported, run, prev, args, calls>>

\* one iteration of `for entry in dataset`: f.write(json.dumps(entry) + "\n")
WriteLine ==
    /\ pc = "write"
    /\ wi < Len(dataset)
    /\ file' = WriteEntry(file, dataset[wi + 1])
    /\ wi' = wi + 1
    /\ UNCHANGED <<catalog, templates, samples, seeded, tape, tpos, pc, dataset, gi, tail, opened,
                   shuffles, reported, run, prev, args, calls>>

\* what a write that failed part-way leaves of a line: its first c characters,
\* without the newline
Cuts(line) == {SubSeq(line, 1, c) : c \in 1..Len(line)}

\* f.write, or the flush when the with block closes f, raises OSError (disk
\* full, file size limit, device error): nothing catches it.  The text is
\* buffered, so what reached the file before the error is some prefix, byte
\* by byte, of the text handed to f.write so far (the entry being written
\* included): a number of complete lines, then possibly a cut line.  The loop
\* is left and its position is gone.
WriteFail ==
    /\ pc = "write"
    /\ LET handed == IF wi < Len(dataset) THEN WriteEntry(file, dataset[wi + 1])
                                           ELSE file
       IN  \/ \E n \in 0..Len(file) :
                 /\ file' = SubSeq(file, 1, n)
                 /\ tail' = ""
           \/ \E n \in 0..(Len(handed) - 1) :
                 /\ file' = SubSeq(handed, 1, n)
                 /\ tail' \in Cuts(handed[n + 1])
    /\ wi' = 0
    /\ pc' = "failed"
    /\ UNCHANGED <<catalog, templates, samples, seeded, tape, tpos, dataset, gi, opened,
                   shuffles, reported, run, prev, args, calls>>

\* the loop is over and the with block closes f
CloseFile ==
    /\ pc = "write"
    /\ wi = Len(dataset)
    /\ pc' = "report"
    /\ UNCHANGED <<catalog, templates, samples, seeded, tape, tpos, dataset, gi, file, tail, wi,
                   opened, shuffles, reported, run, prev, args, calls>>

\* print(f"... Generated {len(dataset)} examples in {filename}")
Report ==
    /\ pc = "report"
    /\ reported' = Len(dataset)
    /\ pc' = "done"
    /\ UNCHANGED <<catalog, templates, samples, seeded, tape, tpos, dataset, gi, file, tail, wi,
                   opened, shuffles, run, prev, args, calls>>

-----------------------------------------------------------------------------
(* Configurations of a run.                                                *)

\* number of (agent, intent) pairs of a catalog
RECURSIVE Pairs(_)
Pairs(cat) == IF cat = <<>> THEN 0 ELSE Len(Head(cat).intents) + Pairs(Tail(cat))

\* small catalogs: two agents with one intent each; an agent without intents
\* and names with capitals and quotes
SmallCatalogs ==
    { << [agent |-> "agent_hr", intents |-> <<"payroll issue">>],
         [agent |-> "agent_it", intents |-> <<"vpn access">>] >>,
      << [agent |-> "agent_data", intents |-> <<>>],
         [agent |-> "Agent_QA", intents |-> <<"Bug \"Report\"">>] >> }

\* the script's catalog, the small ones, one agent with two intents, and
\* agents with different numbers of intents
Catalogs ==
    { AGENTS,
      << [agent |-> "agent_hr", intents |-> <<"payroll issue", "holiday request">>] >>,
      << [agent |-> "agent_hr", intents |-> <<"payroll issue", "holiday request">>],
         [agent |-> "agent_it", intents |-> <<"vpn access">>] >> }
        \cup SmallCatalogs

\* the script's templates, and a Template Set of one template
TemplateSets == {TEMPLATES, <<"Who handles {intent}?">>}

\* the loops of main as the script runs them: AGENTS, 50 samples per intent
DefaultIterations == Iterations(AGENTS, SAMPLES_PER_INTENT)

\* a line left in the output file by an earlier use
StaleLine == "{\"stale\": 1}"

\* what the output file holds before the run
PreviousContents == {<<StaleLine>>}

NoCall == [agent |-> "", intent |-> ""]

\* a run of main() that builds at most max records, or at most maxOne when
\* its Template Set has one template
Start(cats, tsets, max, maxOne, isSeeded, contents) ==
    /\ catalog \in cats
    /\ templates \in tsets
    /\ samples \in 0..(IF Len(templates) = 1 THEN maxOne ELSE max)
    /\ Pairs(catalog) * samples <= (IF Len(templates) = 1 THEN maxOne ELSE max)
    /\ seeded = isSeeded
    /\ tape = <<>>
    /\ tpos = 1
    /\ pc = "generate"
    /\ dataset = <<>>
    /\ gi = 0
    /\ file \in contents
    /\ tail = ""
    /\ wi = 0
    /\ opened = FALSE
    /\ shuffles = 0
    /\ reported = "none"
    /\ run = 1
    /\ prev = "none"
    /\ args = NoCall
    /\ calls = <<>>

Init == Start(Catalogs, TemplateSets, MaxRecords, MaxRecordsOneTemplate, FALSE, PreviousContents)

Next ==
    \/ Generate
    \/ Shuffle
    \/ OpenFile
    \/ OpenFail
    \/ WriteLine
    \/ WriteFail
    \/ CloseFile
    \/ Report

Spec == Init /\ [][Next]_vars

-----------------------------------------------------------------------------
(* Re-running with the random source seeded identically.                   *)

\* The first run has written its file; the file is kept aside, random.seed is
\* called with the seed of the first run and main() is run again.
Rerun ==
    /\ seeded
    /\ run = 1
    /\ pc = "done"
    /\ prev' = [dataset |-> dataset, file |-> file, tail |-> tail]
    /\ run' = 2
    /\ tpos' = 1
    /\ pc' = "generate"
    /\ dataset' = <<>>
    /\ gi' = 0
    /\ wi' = 0
    /\ opened' = FALSE
    /\ shuffles' = 0
    /\ reported' = "none"
    /\ UNCHANGED <<catalog, templates, samples, seeded, tape, file, tail, args, calls>>

InitDet == Start(SmallCatalogs, {TEMPLATES}, MaxRecordsDet, MaxRecordsDet, TRUE, PreviousContents)

NextDet ==
    \/ Generate
    \/ Shuffle
    \/ OpenFile
    \/ OpenFail
    \/ WriteLine
    \/ WriteFail
    \/ CloseFile
    \/ Report
    \/ Rerun

SpecDet == InitDet /\ [][NextDet]_vars

-----------------------------------------------------------------------------
(* generate_sample in isolation.                                           *)

\* the (agent, intent) pairs of a catalog, in catalog order
RECURSIVE CatalogPairs(_)
CatalogPairs(cat) ==
    IF cat = <<>> THEN <<>>
    ELSE [j \in 1..Len(Head(cat).intents) |->
              [agent |-> Head(cat).agent, intent |-> Head(cat).intents[j]]]
             \o CatalogPairs(Tail(cat))

\* one call generate_sample(args.agent, args.intent), with its draws
Call ==
    /\ pc = "idle"
    /\ Len(calls) < MaxCalls
    /\ \E k \in ChoiceDraws, d \in RandomDraws :
          calls' = Append(calls,
                          [k |-> k, d |-> d,
                           result |-> generate_sample(args.agent, args.intent, k, d)])
    /\ UNCHANGED <<catalog, templates, samples, seeded, tape, tpos, pc, dataset, gi, file, tail, wi,
                   opened, shuffles, reported, run, prev, args>>

InitSample ==
    /\ catalog \in Catalogs
    /\ templates = TEMPLATES
    /\ args \in Range(CatalogPairs(catalog))
    /\ calls = <<>>
    /\ samples = 0
    /\ seeded = FALSE
    /\ tape = <<>>
    /\ tpos = 1
    /\ pc = "idle"
    /\ dataset = <<>>
    /\ gi = 0
    /\ file = <<>>
    /\ tail = ""
    /\ wi = 0
    /\ opened = FALSE
    /\ shuffles = 0
    /\ reported = "none"
    /\ run = 1
    /\ prev = "none"

NextSample == Call

SpecSample == InitSample /\ [][NextSample]_vars

-----------------------------------------------------------------------------
(* Reading records.                                                        *)

ReasonPrefix == "Matched intent: "

Placeholder == "{intent}"

\* What a record says: whether its output field decodes to an object with a
\* target and a reason of the form "Matched intent: ...", and then the target
\* and the intent named after "Matched intent: ".
Read(rec) ==
    LET o == Loads(rec.output)
        ok == /\ Has(o, "target")
              /\ Has(o, "reason")
              /\ StartsWith(Get(o, "reason"), ReasonPrefix)
    IN  IF ok
        THEN [ok |-> TRUE, keys |-> Keys(o), target |-> Get(o, "target"),
              intent |-> Rest(Get(o, "reason"), Len(ReasonPrefix) + 1),
              confidence |-> IF Has(o, "confidence") THEN Get(o, "confidence") ELSE ""]
        ELSE [ok |-> FALSE, keys |-> <<>>, target |-> "", intent |-> "", confidence |-> ""]

\* json.loads of a line of the file: whether it decodes to an object with the
\* three fields of a record, and then the record
ReadLine(line) ==
    LET o == Loads(line)
    IN  IF o.ok /\ Keys(o) = <<"instruction", "input", "output">>
        THEN [ok |-> TRUE,
              rec |-> [ instruction |-> Get(o, "instruction"),
                        input       |-> Get(o, "input"),
                        output      |-> Get(o, "output") ]]
        ELSE [ok |-> FALSE, rec |-> [instruction |-> "", input |-> "", output |-> ""]]

\* the (agent, intent) pair a record names
PairOf(rec) == LET r == Read(rec) IN [agent |-> r.target, intent |-> r.intent]

\* target is a key of the catalog and the named intent is in that agent's list
InCatalog(rec) ==
    LET r == Read(rec)
    IN  /\ r.ok
        /\ \E i \in 1..Len(catalog) :
              /\ catalog[i].agent = r.target
              /\ r.intent \in Range(catalog[i].intents)

\* sum over agents of (number of intents of the agent x n)
RECURSIVE ExpectedSize(_, _)
ExpectedSize(cat, n) ==
    IF cat = <<>> THEN 0
    ELSE Len(Head(cat).intents) * n + ExpectedSize(Tail(cat), n)

\* the positions at which sub occurs in s
Occurrences(s, sub) ==
    {p \in 1..(Len(s) - Len(sub) + 1) : SubSeq(s, p, p + Len(sub) - 1) = sub}

\* input with one occurrence of the intent replaced by the placeholder
Skeletons(input, intent) ==
    {SubSeq(input, 1, p - 1) \o Placeholder \o Rest(input, p + Len(intent)) :
        p \in Occurrences(input, intent)}

\* template t with its placeholder replaced by v
Substituted(t, v) ==
    LET p == CHOOSE q \in Occurrences(t, Placeholder) : TRUE
    IN  SubSeq(t, 1, p - 1) \o v \o Rest(t, p + Len(Placeholder))

\* the templates of the run, lowercased
LoweredTemplates == {lower(templates[i]) : i \in 1..Len(templates)}

\* the multiset of the items of a sequence
BagOf(seq) == [x \in Range(seq) |-> Cardinality({i \in DOMAIN seq : seq[i] = x})]

\* the (agent, intent) pairs the records of a sequence name, in order
PairsNamed(seq) == [i \in DOMAIN seq |-> PairOf(seq[i])]

\* the number of items of a sequence equal to x
Count(seq, x) == Cardinality({i \in DOMAIN seq : seq[i] = x})

\* the lines of the file, decoded
FileRecords == [i \in 1..Len(file) |-> ReadLine(file[i]).rec]

\* In a step, line i of the file is new: it was not there, at that place, in
\* the file the run had opened.
Entering(i) == ~(opened /\ i <= Len(file) /\ file[i] = file'[i])

\* In a step, record i of the dataset is new: it was not there, at that
\* place, before the step.
Placed(i) == i > Len(dataset) \/ dataset'[i] # dataset[i]

\* the lines a complete file holds
FullFile == [i \in 1..Len(dataset) |-> DumpsEntry(dataset[i])]

-----------------------------------------------------------------------------
(* The claims.                                                             *)

\* C1: at every point of a run (during generation, after the shuffle, and for
\* every line written to the file) every record's output.target is a key of
\* the Agent Catalog and the intent named in output.reason is one of that
\* agent's intents.  The dataset starts empty and the catalog is never
\* changed, so it is every record taking a place in the dataset that is
\* looked at, and every complete line taking a place in the file.  A cut line
\* (text without its newline) is in the file only after a failed write.
C1_TargetAndIntentInCatalog ==
    /\ dataset = <<>>
    /\ [][/\ catalog' = catalog
          /\ \A i \in 1..Len(dataset') :
                 Placed(i) => \A rec \in {dataset'[i]} : InCatalog(rec)]_vars
    /\ [](tail # "" => pc = "failed")
    /\ [][opened' => \A i \in 1..Len(file') :
                         Entering(i) =>
                             LET l == ReadLine(file'[i]) IN l.ok /\ InCatalog(l.rec)]_vars

\* C1 witness: a finished run whose file names two different agents.
C1_Witness ==
    /\ pc = "done"
    /\ Len(file) = 2
    /\ \E i, j \in 1..Len(file) : PairOf(FileRecords[i]).agent # PairOf(FileRecords[j]).agent

\* C2: once generation is complete the dataset has
\* sum over agents of (intents of the agent x samples_per_intent) records,
\* before and after the shuffle; for the default catalog and 50 samples that
\* is 800.
C2_DatasetSize ==
    /\ pc = "generate" => Len(dataset) = gi /\ gi <= ExpectedSize(catalog, samples)
    /\ pc \in {"open", "write", "report", "done", "failed"} =>
           Len(dataset) = ExpectedSize(catalog, samples)
    /\ Len(DefaultIterations) = 800
    /\ ExpectedSize(AGENTS, SAMPLES_PER_INTENT) = 800

\* C2 witness: a shuffled dataset of four records, built with two samples
\* per intent for an agent with two intents.
C2_Witness ==
    /\ pc = "open"
    /\ Len(catalog) = 1
    /\ Len(catalog[1].intents) = 2
    /\ samples = 2
    /\ Len(dataset) = 4

\* C3 as stated: every input is non-empty and, with the intent substring
\* replaced by the placeholder, is a member of TEMPLATES.
C3_InputRecoversTemplate ==
    \A i \in 1..Len(dataset) :
        LET r == Read(dataset[i])
        IN  /\ dataset[i].input # ""
            /\ r.ok
            /\ Skeletons(dataset[i].input, r.intent) \cap Range(templates) # {}

\* C3 as amended: every input is non-empty; compared without regard to letter
\* case, replacing the intent by the placeholder recovers a template; and an
\* input that was not lowercased (it still has a capital) recovers the
\* template exactly.  The dataset starts empty, so it is every record taking
\* a place in the dataset that is looked at.
C3_InputRecoversTemplateUpToCase ==
    /\ dataset = <<>>
    /\ [][\A i \in 1..Len(dataset') :
              Placed(i) =>
                  \A rec \in {dataset'[i]} :
                      LET r == Read(rec)
                          low == lower(rec.input)
                      IN  /\ rec.input # ""
                          /\ r.ok
                          /\ Skeletons(low, lower(r.intent)) \cap LoweredTemplates # {}
                          /\ rec.input # low =>
                                Skeletons(rec.input, r.intent) \cap Range(templates) # {}]_vars

\* C3 witness: a finished run with a lowercased input and one that kept its
\* capitals.
C3_Witness ==
    /\ pc = "done"
    /\ \E i, j \in 1..Len(dataset) :
          /\ dataset[i].input = lower(dataset[i].input)
          /\ dataset[j].input # lower(dataset[j].input)

\* C4 as stated: a run ends either with the file holding the full dataset or
\* failed without a usable artifact; it never ends with the file holding a
\* non-empty strict prefix of the dataset (some of its lines, the last one
\* possibly cut).
C4_NoPartialFile ==
    pc \in {"done", "failed"} =>
        \/ pc = "done" /\ file = FullFile /\ tail = ""
        \/ /\ pc = "failed"
           /\ ~(/\ opened
                /\ Len(file) > 0 \/ tail # ""
                /\ Len(file) < Len(dataset)
                /\ file = SubSeq(FullFile, 1, Len(file))
                /\ tail = SubSeq(FullFile[Len(file) + 1], 1, Len(tail)))

\* C5: the re-run with the same seed builds the dataset of the first run,
\* record for record and in the same order, and writes the same file.
C5_SameSeedSameDataset ==
    run = 2 =>
        /\ pc = "generate" =>
               \A x \in Range(dataset) : Count(dataset, x) <= Count(prev.dataset, x)
        /\ pc \in {"open", "write", "report", "done", "failed"} =>
               dataset = prev.dataset
        /\ pc \in {"report", "done"} => file = prev.file /\ tail = prev.tail

\* C5 witness: both runs have written their files; the dataset has two
\* different records, one of them lowercased.
C5_Witness ==
    /\ run = 2
    /\ pc = "done"
    /\ Len(dataset) = 2
    /\ dataset[1] # dataset[2]
    /\ \E i \in 1..2 : dataset[i].input = lower(dataset[i].input)

\* C6: after a successful write the file holds exactly one line per record,
\* line i being the serialization of dataset[i] in the post-shuffle order;
\* nothing of the previous content is left; and the count reported equals
\* the number of lines written.
C6_FileIsDataset ==
    /\ pc \in {"report", "done"} =>
           /\ Len(file) = Len(dataset)
           /\ \A i \in 1..Len(file) :
                  /\ ReadLine(file[i]).ok
                  /\ ReadLine(file[i]).rec = dataset[i]
                  /\ file[i] = DumpsEntry(dataset[i])
           /\ tail = ""
           /\ wi = Len(file)
    /\ pc = "done" => reported = Len(file)

\* C6 witness: a finished run over a file that had content, with two
\* different records written.
C6_Witness ==
    /\ pc = "done"
    /\ reported = 2
    /\ file[1] # file[2]
    /\ StaleLine \notin Range(file)
    /\ dataset[1].input # dataset[2].input

\* C7: generate_sample(agent, intent) with template choice k and draw d
\* returns the constant instruction, input = the template with its
\* placeholder replaced by the intent (lowercased exactly when d is below
\* 0.1), and an output that encodes target = agent, confidence = 1.0,
\* reason = "Matched intent: " + intent; e.g. agent_it, "vpn access",
\* "Who handles {intent}?", no flip.
C7_SampleIsFullyPopulated ==
    \A c \in Range(calls) :
        LET r == c.result
            u == Substituted(TEMPLATES[c.k + 1], args.intent)
            o == Read(r)
        IN  /\ DOMAIN r = {"instruction", "input", "output"}
            /\ r.instruction = INSTRUCTION
            /\ r.input = IF c.d < LOWERCASE_THRESHOLD THEN lower(u) ELSE u
            /\ o.ok
            /\ o.keys = <<"target", "confidence", "reason">>
            /\ o.target = args.agent
            /\ o.confidence = "1.0"
            /\ o.intent = args.intent
            /\ (args.agent = "agent_it" /\ args.intent = "vpn access"
                    /\ TEMPLATES[c.k + 1] = "Who handles {intent}?"
                    /\ c.d >= LOWERCASE_THRESHOLD) =>
                   /\ r.input = "Who handles vpn access?"
                   /\ r.output = "{\"target\": \"agent_it\", \"confidence\": 1.0, "
                                     \o "\"reason\": \"Matched intent: vpn access\"}"

\* C7 witness: the example call, made at the threshold draw (no flip), and a
\* call below the threshold.
C7_Witness ==
    /\ args = [agent |-> "agent_it", intent |-> "vpn access"]
    /\ Len(calls) = 2
    /\ calls[1].k = 2 /\ calls[1].d = LOWERCASE_THRESHOLD
    /\ calls[1].result.input = "Who handles vpn access?"
    /\ calls[2].d < LOWERCASE_THRESHOLD
    /\ calls[2].result.input = "who handles vpn access?"

\* C8: the run is one sequential pass.  The file is opened only when every
\* record has been generated and the one shuffle is done; the shuffle happens
\* once; once the shuffle is done the dataset never changes; the file is not
\* touched while generation is in progress; and every line the file receives
\* is the record at the same post-shuffle position.
C8_SequentialPass ==
    /\ [](/\ shuffles <= 1
          /\ shuffles = 1 <=> pc # "generate"
          /\ opened => /\ shuffles = 1
                       /\ gi = ExpectedSize(catalog, samples)
                       /\ Len(file) <= Len(dataset)
          /\ pc \in {"write", "report", "done"} => opened)
    /\ [][/\ shuffles = 1 => dataset' = dataset /\ shuffles' = 1
          /\ pc = "generate" => file' = file /\ tail' = tail /\ opened' = opened
          /\ dataset' # dataset => ~opened
          /\ opened' => \A i \in 1..Len(file') :
                            Entering(i) => /\ i <= Len(dataset')
                                           /\ file'[i] = DumpsEntry(dataset'[i])]_vars

\* C8 witness: one line is in the file and a second record is still to be
\* written, in a dataset that the shuffle took out of catalog order.
C8_Witness ==
    /\ pc = "write"
    /\ wi = 1
    /\ Len(file) = 1
    /\ Len(dataset) = 2
    /\ Len(catalog) = 2
    /\ PairsNamed(dataset) # CatalogPairs(catalog)

\* the loops of the script visit the pairs of AGENTS in catalog order, 50
\* times each in a row
DefaultOrder ==
    \A i \in 1..Len(DefaultIterations) :
        DefaultIterations[i] = CatalogPairs(AGENTS)[((i - 1) \div SAMPLES_PER_INTENT) + 1]

\* C9: during generation the records are in catalog order (agents, then
\* intents, then repetitions); the shuffle only permutes them; so in the final
\* dataset and in the written file each pair of the catalog is named by
\* exactly samples_per_intent records and no record names another pair.  The
\* dataset is counted when the file is about to be opened; from the shuffle
\* on it no longer changes.
C9_ShufflePermutes ==
    /\ [](/\ DefaultOrder
          /\ pc = "generate" /\ samples > 0 =>
               \A i \in 1..Len(dataset) :
                   PairOf(dataset[i]) = CatalogPairs(catalog)[((i - 1) \div samples) + 1]
          /\ pc = "open" =>
               LET named == PairsNamed(dataset)
               IN  /\ \A p \in Range(CatalogPairs(catalog)) : Count(named, p) = samples
                   /\ Range(named) \subseteq Range(CatalogPairs(catalog))
          /\ pc = "done" =>
               LET named == PairsNamed(FileRecords)
               IN  /\ \A p \in Range(CatalogPairs(catalog)) : Count(named, p) = samples
                   /\ Range(named) \subseteq Range(CatalogPairs(catalog)))
    /\ [][/\ shuffles' # shuffles => BagOf(dataset') = BagOf(dataset)
          /\ shuffles = 1 => dataset' = dataset]_vars

\* C9 witness: a written file of four records, two samples of each of two
\* intents of one agent, that the shuffle took out of catalog order: the two
\* records of the second intent come first.
C9_Witness ==
    /\ pc = "done"
    /\ samples = 2
    /\ Len(CatalogPairs(catalog)) = 2
    /\ Len(file) = 4
    /\ PairsNamed(FileRecords) = << CatalogPairs(catalog)[2], CatalogPairs(catalog)[2],
                                    CatalogPairs(catalog)[1], CatalogPairs(catalog)[1] >>

\* C10: the random choices of generate_sample reach only the input field: two
\* calls on the same (agent, intent) with different draws return the same
\* instruction and the same output, and the lowercase flip leaves the casing
\* of the agent in target and of the intent in reason as given.
C10_DrawsAffectOnlyInput ==
    \A c1, c2 \in Range(calls) :
        /\ c1.result.instruction = c2.result.instruction
        /\ c1.result.output = c2.result.output
        /\ DOMAIN c1.result = {"instruction", "input", "output"}
        /\ c1.d < LOWERCASE_THRESHOLD =>
               LET o == Read(c1.result)
               IN  o.ok /\ o.target = args.agent /\ o.intent = args.intent

\* C10 witness: two calls on names with capitals, with different templates,
\* one lowercased and one not, whose inputs differ.
C10_Witness ==
    /\ args.agent # lower(args.agent)
    /\ args.intent # lower(args.intent)
    /\ Len(calls) = 2
    /\ calls[1].k # calls[2].k
    /\ calls[1].d < LOWERCASE_THRESHOLD
    /\ calls[2].d >= LOWERCASE_THRESHOLD
    /\ calls[1].result.input # calls[2].result.input

====
